---- MODULE Spec2Model ----
(***************************************************************************)
(* Model of inventory.py: the Terraform-state -> Ansible-inventory         *)
(* pipeline (Inventory.extract_resources, AzureVM/AzureNIC/AzureIP         *)
(* construction, AzureVM.lookup / AzureNIC.lookup, Inventory.inventory).   *)
(*                                                                         *)
(* Python dicts are functions whose DOMAIN is the set of present keys; a   *)
(* subscript on a missing key is a KeyError.  An object attribute that was *)
(* never assigned holds Unset and reading it is an AttributeError; None is *)
(* the Python value None.  Object references (vm.nic, nic.public_ip) are   *)
(* the key of the referenced object in its group, the groups being the     *)
(* only owners of the objects.                                             *)
(***************************************************************************)
EXTENDS Integers, Sequences, FiniteSets, TLC

VARIABLES state, use_private_ip, resources, pc, i, inventory, h, output,
          prev, builds, err

vars == <<state, use_private_ip, resources, pc, i, inventory, h, output,
          prev, builds, err>>

\* ---------------------------------------------------------------- bounds
MaxRes == 3
MaxBuilds == 2

\* ------------------------------------------------------- Python encodings
None == "None"
Unset == "<unset>"
NoError == "none"

EmptyMap == [k \in {} |-> None]

Has(m, k) == k \in DOMAIN m

Put(m, k, v) == [x \in (DOMAIN m) \cup {k} |-> IF x = k THEN v ELSE m[x]]

Truthy(v) == v # None /\ v # ""

\* ------------------------------------------------------ resource records
AzureResource(resource) ==
    IF ~Has(resource, "attributes") THEN [err |-> "KeyError"]
    ELSE IF ~Has(resource.attributes, "id") THEN [err |-> "KeyError"]
    ELSE IF ~Has(resource.attributes, "name") THEN [err |-> "KeyError"]
    ELSE [err |-> NoError]

AzureVM(resource) ==
    LET base == AzureResource(resource)
        attr == resource.attributes
        dummy == [id |-> None, name |-> None, nic_id |-> Unset, user |-> None,
                  nic |-> Unset]
    IN  IF base.err # NoError THEN [err |-> base.err, obj |-> dummy]
        ELSE IF ~Has(attr, "network_interface_ids")
            THEN [err |-> "KeyError", obj |-> dummy]
        ELSE IF ~Has(attr, "os_profile")
            THEN [err |-> "KeyError", obj |-> dummy]
        ELSE IF Len(attr.os_profile) > 0 /\ ~Has(attr.os_profile[1], "admin_username")
            THEN [err |-> "KeyError", obj |-> dummy]
        ELSE [err |-> NoError,
              obj |-> [id |-> attr.id,
                       name |-> attr.name,
                       nic_id |-> IF Len(attr.network_interface_ids) > 0
                                  THEN attr.network_interface_ids[1]
                                  ELSE Unset,
                       user |-> IF Len(attr.os_profile) > 0
                                   /\ Truthy(attr.os_profile[1].admin_username)
                                THEN attr.os_profile[1].admin_username
                                ELSE None,
                       nic |-> Unset]]

AzureIP(resource) ==
    LET base == AzureResource(resource)
        attr == resource.attributes
        dummy == [id |-> None, name |-> None, ip |-> None]
    IN  IF base.err # NoError THEN [err |-> base.err, obj |-> dummy]
        ELSE IF ~Has(attr, "ip_address") THEN [err |-> "KeyError", obj |-> dummy]
        ELSE [err |-> NoError,
              obj |-> [id |-> attr.id, name |-> attr.name, ip |-> attr.ip_address]]

AzureNIC(resource) ==
    LET base == AzureResource(resource)
        attr == resource.attributes
        dummy == [id |-> None, name |-> None, private_ip |-> None,
                  public_ip |-> None, public_ip_id |-> Unset]
    IN  IF base.err # NoError THEN [err |-> base.err, obj |-> dummy]
        ELSE IF ~Has(attr, "private_ip_address")
            THEN [err |-> "KeyError", obj |-> dummy]
        ELSE IF ~Has(attr, "ip_configuration")
            THEN [err |-> "KeyError", obj |-> dummy]
        ELSE IF Len(attr.ip_configuration) > 0
                /\ ~Has(attr.ip_configuration[1], "public_ip_address_id")
            THEN [err |-> "KeyError", obj |-> dummy]
        ELSE [err |-> NoError,
              obj |-> [id |-> attr.id,
                       name |-> attr.name,
                       private_ip |-> attr.private_ip_address,
                       public_ip |-> None,
                       public_ip_id |-> IF Len(attr.ip_configuration) > 0
                                        THEN attr.ip_configuration[1].public_ip_address_id
                                        ELSE Unset]]

\* ------------------------------------------------------------- extractor
resource_types ==
    [azurerm_virtual_machine   |-> [alias |-> "hosts",     class |-> "AzureVM"],
     azurerm_public_ip         |-> [alias |-> "public_ip", class |-> "AzureIP"],
     azurerm_network_interface |-> [alias |-> "nics",      class |-> "AzureNIC"]]

Construct(restype, instance) ==
    CASE restype = "AzureVM"  -> AzureVM(instance)
      [] restype = "AzureIP"  -> AzureIP(instance)
      [] restype = "AzureNIC" -> AzureNIC(instance)

\* A Python dict: recs holds the items, order the keys in insertion order.
EmptyGroup == [order |-> <<>>, recs |-> EmptyMap]

\* Variants of the insertion with a defect: the first record of an identifier
\* is kept; an overwritten key moves to the end of the key order.
GroupInsertKeepFirst(group, resource) ==
    IF resource.id \in DOMAIN group.recs THEN group
    ELSE [order |-> Append(group.order, resource.id),
          recs  |-> Put(group.recs, resource.id, resource)]

GroupInsertMoveToEnd(group, resource) ==
    [order |-> Append(SelectSeq(group.order, LAMBDA k : k # resource.id),
                      resource.id),
     recs  |-> Put(group.recs, resource.id, resource)]

\* group[resource.id] = resource
GroupInsert(group, resource) ==
    [order |-> IF resource.id \in DOMAIN group.recs
               THEN group.order
               ELSE Append(group.order, resource.id),
     recs  |-> Put(group.recs, resource.id, resource)]

\* Variant with a defect: an instance whose construction raises is skipped.
RECURSIVE AddInstancesSkip(_, _, _, _)
AddInstancesSkip(group, instances, restype, n) ==
    IF n > Len(instances) THEN [err |-> NoError, group |-> group]
    ELSE LET c == Construct(restype, instances[n])
         IN  IF c.err # NoError
             THEN AddInstancesSkip(group, instances, restype, n + 1)
             ELSE AddInstancesSkip(GroupInsert(group, c.obj), instances, restype, n + 1)

RECURSIVE AddInstances(_, _, _, _)
AddInstances(group, instances, restype, n) ==
    IF n > Len(instances) THEN [err |-> NoError, group |-> group]
    ELSE LET c == Construct(restype, instances[n])
         IN  IF c.err # NoError THEN [err |-> c.err, group |-> group]
             ELSE AddInstances(GroupInsert(group, c.obj), instances, restype, n + 1)

add_resources_to_group(group, res, restype) ==
    IF Has(res, "instances")
    THEN AddInstances(group, res.instances, restype, 1)
    ELSE [err |-> NoError, group |-> group]

update_resource_group(typedef, rs, res) ==
    LET name == typedef.alias
        group == IF Has(rs, name) THEN rs[name] ELSE EmptyGroup
        r == add_resources_to_group(group, res, typedef.class)
    IN  [err |-> r.err, resources |-> Put(rs, name, r.group)]

\* ---------------------------------------------------------------- resolver
\* Variant with a defect: a lookup of an already resolved NIC detaches its
\* public IP.
NICLookupToggle(rs, nic_id) ==
    LET nic == rs["nics"].recs[nic_id]
    IN  IF ~Has(rs, "public_ip") THEN [err |-> "KeyError", resources |-> rs]
        ELSE IF nic.public_ip_id = Unset
            THEN [err |-> "AttributeError", resources |-> rs]
        ELSE IF nic.public_ip_id \in DOMAIN rs["public_ip"].recs
            THEN [err |-> NoError,
                  resources |-> [rs EXCEPT !["nics"].recs[nic_id].public_ip =
                                     IF nic.public_ip = None THEN nic.public_ip_id
                                     ELSE None]]
        ELSE [err |-> NoError, resources |-> rs]

NICLookup(rs, nic_id) ==
    LET nic == rs["nics"].recs[nic_id]
    IN  IF ~Has(rs, "public_ip") THEN [err |-> "KeyError", resources |-> rs]
        ELSE IF nic.public_ip_id = Unset
            THEN [err |-> "AttributeError", resources |-> rs]
        ELSE IF nic.public_ip_id \in DOMAIN rs["public_ip"].recs
            THEN [err |-> NoError,
                  resources |-> [rs EXCEPT !["nics"].recs[nic_id].public_ip =
                                               nic.public_ip_id]]
        ELSE [err |-> NoError, resources |-> rs]

VMLookup(rs, vm_id) ==
    LET vm == rs["hosts"].recs[vm_id]
    IN  IF ~Has(rs, "nics") THEN [err |-> "KeyError", resources |-> rs]
        ELSE IF vm.nic_id = Unset
            THEN [err |-> "AttributeError", resources |-> rs]
        ELSE IF vm.nic_id \in DOMAIN rs["nics"].recs
            THEN NICLookup([rs EXCEPT !["hosts"].recs[vm_id].nic = vm.nic_id],
                           vm.nic_id)
        ELSE [err |-> NoError, resources |-> rs]

\* ----------------------------------------------------------------- builder
EmptyInventory == [hostvars |-> EmptyMap, hosts |-> <<>>]

\* Variant with a defect: the flag is ignored.
SelectAddressIgnoreFlag(rs, nic, private) ==
    IF nic.public_ip # None
    THEN rs["public_ip"].recs[nic.public_ip].ip
    ELSE nic.private_ip

SelectAddress(rs, nic, private) ==
    IF nic.public_ip # None /\ ~private
    THEN rs["public_ip"].recs[nic.public_ip].ip
    ELSE nic.private_ip

\* Variant with a defect: the key is set whatever the user is.
UserVarsAlways(hostvars, host) == Put(hostvars, "ansible_user", host.user)

UserVars(hostvars, host) ==
    IF Truthy(host.user) THEN Put(hostvars, "ansible_user", host.user)
    ELSE hostvars

add_host_to_inventory(rs, inv, vm_id, private) ==
    LET lk == VMLookup(rs, vm_id)
        host == lk.resources["hosts"].recs[vm_id]
        inv1 == [hostvars |-> Put(inv.hostvars, host.name, EmptyMap),
                 hosts |-> Append(inv.hosts, host.name)]
    IN  IF lk.err # NoError
        THEN [err |-> lk.err, resources |-> lk.resources, inventory |-> inv]
        ELSE IF host.nic = Unset
        THEN [err |-> "AttributeError", resources |-> lk.resources,
              inventory |-> inv1]
        ELSE LET nic == lk.resources["nics"].recs[host.nic]
                 hv == UserVars(Put(EmptyMap, "ansible_host",
                                    SelectAddress(lk.resources, nic, private)),
                                host)
             IN  [err |-> NoError, resources |-> lk.resources,
                  inventory |-> [inv1 EXCEPT !.hostvars[host.name] = hv]]

HostOrder(rs) == IF Has(rs, "hosts") THEN rs["hosts"].order ELSE <<>>

\* ------------------------------------------------------------------ inputs
\* Attribute mappings of resource instances, as found in a Terraform state.
VMAttr(id, name, nic_ids, os) ==
    [attributes |-> [id |-> id, name |-> name, network_interface_ids |-> nic_ids,
                     os_profile |-> os]]

NICAttr(id, name, private, ipcfg) ==
    [attributes |-> [id |-> id, name |-> name, private_ip_address |-> private,
                     ip_configuration |-> ipcfg]]

IPAttr(id, name, ip) ==
    [attributes |-> [id |-> id, name |-> name, ip_address |-> ip]]

Os(user) == <<[admin_username |-> user]>>

IpCfg(pid) == [public_ip_address_id |-> pid]

Entry(type, instances) == [type |-> type, instances |-> instances]

VMType == "azurerm_virtual_machine"
NICType == "azurerm_network_interface"
IPType == "azurerm_public_ip"

ResourceEntries ==
    { \* the identifier v1 twice, with another identifier in between
      Entry(VMType, << VMAttr("v1", "web1", <<"n1">>, Os("admin")),
                       VMAttr("v2", "web2", <<"n1", "n2">>, Os("deploy")),
                       VMAttr("v1", "web3", <<"n1">>, Os("")) >>),
      \* two identifiers, one name
      Entry(VMType, << VMAttr("v2", "web1", <<"n1">>, <<>>),
                       VMAttr("v3", "web1", <<"n2">>, Os(None)) >>),
      \* no interface at all, and an interface that is not in the state
      Entry(VMType, << VMAttr("v4", "web4", <<>>, Os("admin")),
                       VMAttr("v5", "web5", <<"n9">>, <<>>) >>),
      \* optional structures missing, mandatory name missing
      Entry(VMType, << [attributes |-> [id |-> "v6", name |-> "web6",
                                        os_profile |-> <<>>]],
                       [attributes |-> [id |-> "v7", name |-> "web7",
                                        network_interface_ids |-> <<"n1">>]],
                       [attributes |-> [id |-> "v8",
                                        network_interface_ids |-> <<"n1">>,
                                        os_profile |-> <<>>]] >>),
      Entry(NICType, << NICAttr("n1", "nic1", "10.0.0.5", <<IpCfg("p1"), IpCfg("p2")>>),
                        NICAttr("n2", "nic2", "10.0.0.6", <<IpCfg("")>>) >>),
      \* n1 without IP configuration, n2 with a public IP that is not in the state
      Entry(NICType, << NICAttr("n2", "nic2", "10.0.0.7", <<IpCfg("p9")>>),
                        NICAttr("n1", "nic1", "10.0.0.8", <<>>) >>),
      \* mandatory private_ip_address missing, optional ip_configuration missing
      Entry(NICType, << [attributes |-> [id |-> "n4", name |-> "nic4",
                                         ip_configuration |-> <<>>]],
                        [attributes |-> [id |-> "n3", name |-> "nic3",
                                         private_ip_address |-> "10.0.0.9"]] >>),
      Entry(IPType, << IPAttr("p1", "ip1", "20.1.1.9"),
                       IPAttr("p2", "ip2", "20.1.1.2"),
                       IPAttr("p1", "ip1", "20.1.1.1") >>),
      \* mandatory ip_address missing
      Entry(IPType, << [attributes |-> [id |-> "p3", name |-> "ip3"]] >>),
      \* a recognized kind without an instances field
      [type |-> IPType],
      \* a kind the inventory does not know
      Entry("azurerm_resource_group", << [attributes |-> [location |-> "westeurope"]] >>) }

RECURSIVE SeqsUpTo(_, _)
SeqsUpTo(S, n) ==
    IF n = 0 THEN { <<>> }
    ELSE LET shorter == SeqsUpTo(S, n - 1)
         IN  shorter \cup { Append(q, e) : q \in shorter, e \in S }

\* State documents: with a resource list of at most MaxRes entries, or
\* without the "resources" key.
StateDocuments ==
    { [version |-> 4, resources |-> r] : r \in SeqsUpTo(ResourceEntries, MaxRes) }
        \cup { [version |-> 4] }

NoOutput == [returned |-> FALSE, doc |-> EmptyInventory]

\* ----------------------------------------------------------------- actions
\* Inventory(state, use_private_ip) is about to run extract_resources.
Init ==
    /\ state \in StateDocuments
    /\ use_private_ip \in BOOLEAN
    /\ resources = EmptyMap
    /\ pc = "extract"
    /\ i = 1
    /\ inventory = EmptyInventory
    /\ h = 1
    /\ output = NoOutput
    /\ prev = NoOutput
    /\ builds = 0
    /\ err = NoError

MoreResources == Has(state, "resources") /\ i <= Len(state.resources)

\* One iteration of the loop of extract_resources over a recognized kind.
ExtractResource ==
    /\ pc = "extract"
    /\ MoreResources
    /\ LET res == state.resources[i]
       IN  /\ res.type \in DOMAIN resource_types
           /\ LET r == update_resource_group(resource_types[res.type], resources, res)
              IN  /\ r.err = NoError
                  /\ resources' = r.resources
    /\ i' = i + 1
    /\ UNCHANGED <<state, use_private_ip, pc, inventory, h, output, prev, builds, err>>

\* The same iteration when a constructor raises: the exception leaves
\* Inventory.__init__ and main.
ExtractRaise ==
    /\ pc = "extract"
    /\ MoreResources
    /\ LET res == state.resources[i]
       IN  /\ res.type \in DOMAIN resource_types
           /\ LET r == update_resource_group(resource_types[res.type], resources, res)
              IN  /\ r.err # NoError
                  /\ resources' = r.resources
                  /\ err' = r.err
    /\ pc' = "aborted"
    /\ UNCHANGED <<state, use_private_ip, i, inventory, h, output, prev, builds>>

\* One iteration over a kind that is not in resource_types.
SkipResource ==
    /\ pc = "extract"
    /\ MoreResources
    /\ state.resources[i].type \notin DOMAIN resource_types
    /\ i' = i + 1
    /\ UNCHANGED <<state, use_private_ip, resources, pc, inventory, h, output,
                   prev, builds, err>>

\* extract_resources returns and Inventory.__init__ stores the groups.
ExtractReturn ==
    /\ pc = "extract"
    /\ ~MoreResources
    /\ pc' = "extracted"
    /\ UNCHANGED <<state, use_private_ip, resources, i, inventory, h, output,
                   prev, builds, err>>

\* Inventory.inventory() is called: a fresh document, then the loop.
InventoryCall ==
    /\ pc \in {"extracted", "done"}
    /\ builds < MaxBuilds
    /\ builds' = builds + 1
    /\ inventory' = EmptyInventory
    /\ h' = 1
    /\ prev' = IF output.returned THEN output ELSE prev
    /\ output' = NoOutput
    /\ pc' = "build"
    /\ UNCHANGED <<state, use_private_ip, resources, i, err>>

\* main() runs again on the same state document: a new Inventory, whose
\* groups are extracted afresh.
Reload ==
    /\ pc = "done"
    /\ builds < MaxBuilds
    /\ resources' = EmptyMap
    /\ i' = 1
    /\ pc' = "extract"
    /\ prev' = output
    /\ output' = NoOutput
    /\ UNCHANGED <<state, use_private_ip, inventory, h, builds, err>>

\* One iteration of the loop of inventory(): add_host_to_inventory.
AddHost ==
    /\ pc = "build"
    /\ h <= Len(HostOrder(resources))
    /\ LET r == add_host_to_inventory(resources, inventory, HostOrder(resources)[h],
                                      use_private_ip)
       IN  /\ r.err = NoError
           /\ resources' = r.resources
           /\ inventory' = r.inventory
    /\ h' = h + 1
    /\ UNCHANGED <<state, use_private_ip, pc, i, output, prev, builds, err>>

\* The same iteration when the lookup or the dereference of host.nic raises.
AddHostRaise ==
    /\ pc = "build"
    /\ h <= Len(HostOrder(resources))
    /\ LET r == add_host_to_inventory(resources, inventory, HostOrder(resources)[h],
                                      use_private_ip)
       IN  /\ r.err # NoError
           /\ resources' = r.resources
           /\ inventory' = r.inventory
           /\ err' = r.err
    /\ pc' = "aborted"
    /\ UNCHANGED <<state, use_private_ip, i, h, output, prev, builds>>

\* inventory() returns the document.
InventoryReturn ==
    /\ pc = "build"
    /\ h > Len(HostOrder(resources))
    /\ output' = [returned |-> TRUE, doc |-> inventory]
    /\ pc' = "done"
    /\ UNCHANGED <<state, use_private_ip, resources, i, inventory, h, prev,
                   builds, err>>

Next ==
    \/ ExtractResource
    \/ ExtractRaise
    \/ SkipResource
    \/ ExtractReturn
    \/ InventoryCall
    \/ Reload
    \/ AddHost
    \/ AddHostRaise
    \/ InventoryReturn

Spec == Init /\ [][Next]_vars

\* output is what the latest call of inventory() returned in the current
\* run, prev the document returned by the call before it.

\* ------------------------------------------------- the document, read back
\* What the properties below expect is read from the state document itself,
\* not from the records the pipeline built.
RECURSIVE Flatten(_, _, _)
Flatten(entries, type, n) ==
    IF n > Len(entries) THEN <<>>
    ELSE (IF entries[n].type = type /\ Has(entries[n], "instances")
          THEN entries[n].instances ELSE <<>>) \o Flatten(entries, type, n + 1)

InstancesOf(type) ==
    IF Has(state, "resources") THEN Flatten(state.resources, type, 1) ELSE <<>>

EntriesOf(type) ==
    IF Has(state, "resources")
    THEN { n \in 1..Len(state.resources) : state.resources[n].type = type }
    ELSE {}

IdsOf(insts) == { insts[n].attributes.id : n \in 1..Len(insts) }

LastInstance(insts, id) ==
    LET n == CHOOSE m \in 1..Len(insts) :
                 /\ insts[m].attributes.id = id
                 /\ \A l \in (m + 1)..Len(insts) : insts[l].attributes.id # id
    IN  insts[n].attributes

RECURSIVE FirstOccurrences(_, _)
FirstOccurrences(insts, n) ==
    IF n = 0 THEN <<>>
    ELSE LET before == FirstOccurrences(insts, n - 1)
             id == insts[n].attributes.id
         IN  IF \E m \in 1..(n - 1) : insts[m].attributes.id = id
             THEN before ELSE Append(before, id)

Mandatory(type) ==
    CASE type = VMType  -> {"id", "name"}
      [] type = NICType -> {"id", "name", "private_ip_address"}
      [] type = IPType  -> {"id", "name", "ip_address"}

MalformedInstance ==
    \E t \in DOMAIN resource_types :
        \E n \in 1..Len(InstancesOf(t)) :
            ~(Mandatory(t) \subseteq DOMAIN InstancesOf(t)[n].attributes)

\* The VM added by the latest completed iteration of inventory()'s loop.
HostAdded == pc \in {"build", "done"} /\ h > 1

AddedVM == LastInstance(InstancesOf(VMType), HostOrder(resources)[h - 1])

AddedVars == inventory.hostvars[AddedVM.name]

\* The VM of the iteration that is about to run, or that raised.
CurrentHost == pc \in {"build", "aborted"} /\ builds >= 1 /\ h <= Len(HostOrder(resources))

CurrentVM == LastInstance(InstancesOf(VMType), HostOrder(resources)[h])

NICResolves(vm) ==
    /\ Len(vm.network_interface_ids) > 0
    /\ vm.network_interface_ids[1] \in IdsOf(InstancesOf(NICType))

NICOf(vm) == LastInstance(InstancesOf(NICType), vm.network_interface_ids[1])

PublicIPResolves(nic) ==
    /\ Len(nic.ip_configuration) > 0
    /\ nic.ip_configuration[1].public_ip_address_id \in IdsOf(InstancesOf(IPType))

PublicIPOf(nic) ==
    LastInstance(InstancesOf(IPType), nic.ip_configuration[1].public_ip_address_id)

\* ------------------------------------------------------------------ claims
\* C1: a VM whose NIC resolves and whose NIC's public IP resolves gets the
\* public IP's address as ansible_host when use_private_ip is false and the
\* NIC's private address when it is true.
AddressSelection ==
    (HostAdded /\ NICResolves(AddedVM) /\ PublicIPResolves(NICOf(AddedVM))) =>
        /\ Has(AddedVars, "ansible_host")
        /\ AddedVars.ansible_host =
               IF use_private_ip
               THEN NICOf(AddedVM).private_ip_address
               ELSE PublicIPOf(NICOf(AddedVM)).ip_address

AddressSelectionWitness ==
    /\ HostAdded /\ NICResolves(AddedVM) /\ PublicIPResolves(NICOf(AddedVM))
    /\ ~use_private_ip
    /\ AddedVars.ansible_host = "20.1.1.1"
    /\ NICOf(AddedVM).private_ip_address = "10.0.0.5"

\* C2: a VM whose NIC resolves but whose NIC has no resolvable public IP
\* (empty ip_configuration, an id that is not in the public_ip group, or no
\* public_ip group) is added without an exception and its ansible_host is
\* the NIC's private address, whatever use_private_ip is.
PrivateFallback ==
    /\ (CurrentHost /\ NICResolves(CurrentVM) /\ ~PublicIPResolves(NICOf(CurrentVM)))
           => pc # "aborted"
    /\ (HostAdded /\ NICResolves(AddedVM) /\ ~PublicIPResolves(NICOf(AddedVM)))
           => /\ Has(AddedVars, "ansible_host")
              /\ AddedVars.ansible_host = NICOf(AddedVM).private_ip_address

\* C3: the lookup of a VM whose nic_id is absent, or is not a key of the nics
\* group, raises nothing and leaves the VM's nic reference absent.
DanglingNICLookup ==
    (pc = "build" /\ h <= Len(HostOrder(resources)) /\ ~NICResolves(CurrentVM)) =>
        LET id == HostOrder(resources)[h]
            lk == VMLookup(resources, id)
        IN  /\ lk.err = NoError
            /\ lk.resources["hosts"].recs[id].nic = Unset

\* C4: in a returned inventory every name of all.hosts is a key of
\* _meta.hostvars and no name occurs twice in all.hosts.
UniqueHostNames ==
    (pc = "done") =>
        LET hosts == output.doc.hosts
        IN  /\ \A n \in 1..Len(hosts) : hosts[n] \in DOMAIN output.doc.hostvars
            /\ \A m, n \in 1..Len(hosts) : hosts[m] = hosts[n] => m = n

\* C5: the variables of an added host have the key ansible_user exactly when
\* the VM's os_profile is non-empty and its first admin_username is
\* non-empty, and the value is that admin_username.
AnsibleUser ==
    HostAdded =>
        LET os == AddedVM.os_profile
            named == Len(os) > 0 /\ os[1].admin_username \notin {"", None}
        IN  /\ Has(AddedVars, "ansible_user") <=> named
            /\ Has(AddedVars, "ansible_user") =>
                   /\ AddedVars.ansible_user = os[1].admin_username
                   /\ AddedVars.ansible_user \notin {"", None}

AnsibleUserWitness ==
    /\ pc = "done"
    /\ Has(output.doc.hostvars, "web2") /\ Has(output.doc.hostvars, "web3")
    /\ Has(output.doc.hostvars["web2"], "ansible_user")
    /\ output.doc.hostvars["web2"].ansible_user = "deploy"
    /\ ~Has(output.doc.hostvars["web3"], "ansible_user")

\* C6: an instance of a recognized kind without a mandatory field stops the
\* run inside extraction and no document is returned; a returned document
\* covers every VM of the hosts group; an aborted run returns none.
AllOrNothing ==
    /\ MalformedInstance => (pc \in {"extract", "aborted"} /\ ~output.returned)
    /\ pc = "aborted" => (~output.returned /\ err # NoError)
    /\ output.returned =>
           /\ pc = "done"
           /\ Len(output.doc.hosts) = Len(HostOrder(resources))
           /\ \A n \in 1..Len(output.doc.hosts) :
                  /\ output.doc.hosts[n] =
                         resources["hosts"].recs[HostOrder(resources)[n]].name
                  /\ Has(output.doc.hostvars, output.doc.hosts[n])
                  /\ Has(output.doc.hostvars[output.doc.hosts[n]], "ansible_host")

AllOrNothingWitness ==
    /\ MalformedInstance /\ pc = "aborted" /\ err = "KeyError" /\ builds = 0
    /\ state.resources[i].type = NICType
    /\ ~Has(state.resources[i].instances[1].attributes, "private_ip_address")
    /\ Has(resources, "hosts") /\ Len(HostOrder(resources)) > 0
    /\ ~output.returned

\* C7: with the mandatory fields present, constructing a VM or a NIC raises
\* nothing when network_interface_ids, os_profile or ip_configuration is
\* missing or empty, and the optional field of the record is then None.
OptionalNeverFails ==
    (pc = "extract" /\ MoreResources /\ Has(state.resources[i], "instances")
        /\ state.resources[i].type \in {VMType, NICType}) =>
        \A n \in 1..Len(state.resources[i].instances) :
            LET t == state.resources[i].type
                inst == state.resources[i].instances[n]
                attr == inst.attributes
                c == Construct(resource_types[t].class, inst)
                Missing(k) == ~Has(attr, k) \/ Len(attr[k]) = 0
            IN  (Mandatory(t) \subseteq DOMAIN attr) =>
                    /\ c.err = NoError
                    /\ (t = VMType /\ Missing("network_interface_ids"))
                           => c.obj.nic_id = None
                    /\ (t = VMType /\ Missing("os_profile")) => c.obj.user = None
                    /\ (t = NICType /\ Missing("ip_configuration"))
                           => c.obj.public_ip_id = None

\* C8: when extraction returns, each group holds exactly the identifiers of
\* the instances of its kind, each mapped to the record built from the last
\* instance with that identifier and keyed by the record's own id; other
\* kinds and entries without instances add no record; a document without a
\* resource list gives an empty mapping.
ExtractedGroups ==
    (pc = "extracted") =>
        /\ ~Has(state, "resources") => resources = EmptyMap
        /\ DOMAIN resources \subseteq {"hosts", "nics", "public_ip"}
        /\ \A t \in DOMAIN resource_types :
               LET alias == resource_types[t].alias
                   insts == InstancesOf(t)
                   group == IF Has(resources, alias) THEN resources[alias]
                            ELSE EmptyGroup
               IN  /\ Has(resources, alias) <=> EntriesOf(t) # {}
                   /\ DOMAIN group.recs = IdsOf(insts)
                   /\ \A id \in IdsOf(insts) :
                          /\ group.recs[id].id = id
                          /\ group.recs[id] =
                                 Construct(resource_types[t].class,
                                           [attributes |-> LastInstance(insts, id)]).obj

ExtractedGroupsWitness ==
    /\ pc = "extracted"
    /\ Has(resources, "public_ip")
    /\ Len(InstancesOf(IPType)) = 3
    /\ Cardinality(DOMAIN resources["public_ip"].recs) = 2
    /\ resources["public_ip"].recs["p1"].ip = "20.1.1.1"
    /\ \E n \in 1..Len(state.resources) :
           state.resources[n].type \notin DOMAIN resource_types

\* C9: a second lookup of a VM leaves the groups as the first one left them,
\* and a second call of inventory(), on the same groups or on groups
\* extracted again from the same document, returns the document the first
\* call returned.
Idempotence ==
    /\ (pc \in {"extracted", "build", "done"}) =>
           \A id \in DOMAIN (IF Has(resources, "hosts") THEN resources["hosts"].recs
                             ELSE EmptyMap) :
               LET once == VMLookup(resources, id)
                   twice == VMLookup(once.resources, id)
               IN  twice = once
    /\ (pc = "done" /\ builds >= 2) => output = prev

IdempotenceWitness ==
    /\ pc = "done" /\ builds >= 2
    /\ Len(output.doc.hosts) >= 2
    /\ \E id \in DOMAIN resources["nics"].recs :
           resources["nics"].recs[id].public_ip # None

\* C10: all.hosts lists the names of the VMs in the key order of the hosts
\* group: one element per distinct VM identifier, at the position of the
\* identifier's first occurrence in the document and with the name of its
\* last occurrence.
HostsOrder ==
    (pc = "done") =>
        LET insts == InstancesOf(VMType)
            ids == FirstOccurrences(insts, Len(insts))
        IN  /\ HostOrder(resources) = ids
            /\ Len(output.doc.hosts) = Cardinality(IdsOf(insts))
            /\ output.doc.hosts = [n \in 1..Len(ids) |-> LastInstance(insts, ids[n]).name]

HostsOrderWitness ==
    /\ pc = "done"
    /\ output.doc.hosts = <<"web3", "web2">>
    /\ Len(InstancesOf(VMType)) = 3

====
